---- MODULE Spec2Model ----
(***************************************************************************)
(* Two-zone cold plate thermal resistance network                          *)
(* (coldplate_thermal_analysis.py) and the calibration of its heat         *)
(* transfer coefficients (calibrate_h_values.py).                          *)
(*                                                                         *)
(* Python floats are modelled as exact rationals: every +, -, *, / of the  *)
(* source is the rational operation, so results are the values the source  *)
(* computes up to floating point rounding.  A rational is a record         *)
(* [s, n, d]: sign, numerator and denominator, both magnitudes being       *)
(* little-endian sequences of limbs, in lowest terms.                      *)
(***************************************************************************)
EXTENDS Integers, Sequences, FiniteSets, Bags, TLC

(***************************************************************************)
(* Arithmetic on magnitudes (natural numbers of any size, little-endian    *)
(* sequences of limbs without leading zeros) and on rationals.             *)
(***************************************************************************)
LimbBase == 10^4

One == <<1>>

RZero == [s |-> 0, n |-> <<>>, d |-> One]

\* w, evaluated once v is: TLC evaluates the components of a tuple in their
\* order, and an argument of an operator where it is first needed
Given(v, w) == <<v, w>>[2]

Limb(a, i) == IF i >= 1 /\ i <= Len(a) THEN a[i] ELSE 0

Max2(i, j) == IF i >= j THEN i ELSE j

Min2(i, j) == IF i <= j THEN i ELSE j

Sgn(k) == IF k < 0 THEN -1 ELSE IF k > 0 THEN 1 ELSE 0

Abs(k) == IF k < 0 THEN -k ELSE k

\* the value of a magnitude of at most two limbs
IntOf(a) == Limb(a, 1) + LimbBase * Limb(a, 2)

RECURSIVE NOfInt(_)
\* the magnitude of a machine integer k >= 0
NOfInt(k) ==
    IF k = 0 THEN <<>> ELSE <<k % LimbBase>> \o NOfInt(k \div LimbBase)

RECURSIVE Log2(_)
\* the least k with 2^k >= i
Log2(i) == IF i <= 1 THEN 0 ELSE 1 + Log2((i + 1) \div 2)

RECURSIVE IGcd(_, _)
\* the greatest common divisor of two machine integers
IGcd(i, j) ==
    IF j = 0 THEN i
    ELSE IF i % j = 0 THEN j
    ELSE IGcd(i % j, j % (i % j))

\* the largest member of a set of integers
MaxOf(S) == CHOOSE q \in S : \A p \in S : p <= q

\* a without leading zero limbs
NNorm(a) == SubSeq(a, 1, MaxOf({0} \cup {i \in 1..Len(a) : a[i] # 0}))

\* the carry out of limb i of the limbwise sums s, each below 2 * LimbBase
CarryOut(s, i) ==
    \E j \in 1..i : s[j] >= LimbBase /\ \A k \in (j + 1)..i : s[k] = LimbBase - 1

\* the magnitude with limbwise sums s
Propagate(s) ==
    NNorm([i \in 1..(Len(s) + 1) |->
              (Limb(s, i) + (IF CarryOut(s, i - 1) THEN 1 ELSE 0)) % LimbBase])

RECURSIVE LimbSum(_, _)
\* the magnitude of the limbwise sum of two sequences of limbs
LimbSum(a, b) ==
    IF Len(a) < Len(b) THEN LimbSum(b, a)
    ELSE Propagate([i \in 1..Len(a) |-> a[i] + Limb(b, i)])

NAdd(a, b) == LimbSum(a, b)

\* the borrow out of limb i of the limbwise differences df
BorrowOut(df, i) ==
    \E j \in 1..i : df[j] < 0 /\ \A k \in (j + 1)..i : df[k] = 0

\* the magnitude with limbwise differences df, its value being >= 0
Settle(df) ==
    NNorm([i \in 1..Len(df) |->
              (df[i] - (IF BorrowOut(df, i - 1) THEN 1 ELSE 0) + LimbBase)
                  % LimbBase])

\* a - b for a >= b
NSub(a, b) ==
    IF Len(b) = 0 \/ Len(a) = 0 THEN a
    ELSE Settle([i \in 1..Len(a) |-> a[i] - Limb(b, i)])

\* the sign of a - b at the highest limb among df, where a and b differ
SignAt(a, b, df) ==
    IF df = {} THEN 0
    ELSE IF \E i \in df : a[i] < b[i] /\ \A j \in df : j <= i THEN -1
    ELSE 1

\* -1, 0, 1 as a < b, a = b, a > b
NCmp(a, b) ==
    IF Len(a) # Len(b) THEN (IF Len(a) < Len(b) THEN -1 ELSE 1)
    ELSE SignAt(a, b, {i \in 1..Len(a) : a[i] # b[i]})

\* a * k for a machine integer 0 <= k < LimbBase
NMulSmall(a, k) ==
    IF k = 0 \/ Len(a) = 0 THEN <<>>
    ELSE IF k = 1 THEN a
    ELSE Propagate([i \in 1..(Len(a) + 1) |->
                  ((Limb(a, i) * k) % LimbBase) + ((Limb(a, i - 1) * k) \div LimbBase)])

\* column k of the long multiplication of a by b: the sum of the products
\* of limbs a[i] * b[k + 1 - i], as the size of the bag holding i that many
\* times and once more
ColumnSum(a, b, k, lo, hi) ==
    BagCardinality([i \in lo..hi |-> a[i] * b[k + 1 - i] + 1]) - (hi - lo + 1)

Columns(a, b) ==
    [k \in 1..(Len(a) + Len(b) - 1) |->
        ColumnSum(a, b, k, Max2(1, k + 1 - Len(b)), Min2(Len(a), k))]

\* the magnitude with column sums c, each below LimbBase^3
FromColumns(c) ==
    LimbSum(LimbSum([k \in 1..Len(c) |-> c[k] % LimbBase],
                    <<0>> \o [k \in 1..Len(c) |->
                                 (c[k] \div LimbBase) % LimbBase]),
            <<0, 0>> \o [k \in 1..Len(c) |-> c[k] \div (LimbBase * LimbBase)])

\* a * b, for magnitudes of which one has at most 21 limbs
NMul(a, b) ==
    IF Len(a) = 0 \/ Len(b) = 0 THEN <<>>
    ELSE IF a = One THEN b
    ELSE IF b = One THEN a
    ELSE FromColumns(Columns(a, b))

\* the largest q in lo..hi with q * b <= r
QDigit(r, b, lo, hi) == MaxOf({q \in lo..hi : NCmp(NMulSmall(b, q), r) <= 0})

\* the power of ten that leaves five digits of a leading limb t and the
\* limb below it
Scale(t) ==
    IF t >= 1000 THEN 1000 ELSE IF t >= 100 THEN 100 ELSE IF t >= 10 THEN 10 ELSE 1

\* the bracket of r \div b that bt and rt, the leading digits of b and r, give
QBracket(r, b, bt, rt) ==
    QDigit(r, b, rt \div (bt + 1), Min2(LimbBase - 1, (rt + 1) \div bt))

\* the leading digits of b and of r at the scale sc
QLeading(r, b, m, sc) ==
    QBracket(r, b, (b[m] * LimbBase + Limb(b, m - 1)) \div sc,
             Limb(r, m + 1) * ((LimbBase * LimbBase) \div sc)
                 + ((Limb(r, m) * LimbBase + Limb(r, m - 1)) \div sc))

\* r \div b for b # 0 and r < LimbBase * b
QuotientLimb(r, b) == QLeading(r, b, Len(b), Scale(b[Len(b)]))

\* one step of the long division of a by b.  Its state <<i, q, r>>: limb i of
\* a is the next to bring down (none left at 0), q holds the quotient limbs
\* found and r < b is the remainder so far
DivPut(b, i, q, r1, qd) == <<i - 1, <<qd>> \o q, NSub(r1, NMulSmall(b, qd))>>

DivDown(b, i, q, r1) ==
    IF NCmp(r1, b) < 0 THEN <<i - 1, <<0>> \o q, r1>>
    ELSE DivPut(b, i, q, r1, QuotientLimb(r1, b))

DivLimb(a, b, st) == DivDown(b, st[1], st[2], NNorm(<<a[st[1]]>> \o st[3]))

RECURSIVE DivIter(_, _, _, _)
\* the state after 2^k steps from st, or the final one
DivIter(k, a, b, st) ==
    IF st[1] = 0 THEN st
    ELSE IF k = 0 THEN DivLimb(a, b, st)
    ELSE DivIter(k - 1, a, b, DivIter(k - 1, a, b, st))

DivRun(a, b, st) == DivIter(Log2(st[1]), a, b, st)

DivResult(st) == <<NNorm(st[2]), st[3]>>

\* <<quotient, remainder>> of a by b # 0
NDivMod(a, b) ==
    IF NCmp(a, b) < 0 THEN <<<<>>, a>>
    ELSE DivResult(DivRun(a, b, <<Len(a) - Len(b) + 1, <<>>,
                                  SubSeq(a, Len(a) - Len(b) + 2, Len(a))>>))

RECURSIVE GcdIter(_, _)
\* the pair t = <<a, b>> after 2^k steps of Euclid's algorithm, or as soon
\* as both fit a machine integer
GcdIter(k, t) ==
    IF t[2] = <<>> \/ (Len(t[1]) <= 2 /\ Len(t[2]) <= 2) THEN t
    ELSE IF k = 0 THEN <<t[2], NDivMod(t[1], t[2])[2]>>
    ELSE GcdIter(k - 1, GcdIter(k - 1, t))

RECURSIVE NGcd(_, _)
NGcdPair(t) == NGcd(t[1], t[2])

\* the greatest common divisor of two magnitudes
NGcd(a, b) ==
    IF b = <<>> THEN a
    ELSE IF a = One \/ b = One THEN One
    ELSE IF Len(a) <= 2 /\ Len(b) <= 2 THEN NOfInt(IGcd(IntOf(a), IntOf(b)))
    ELSE NGcdPair(GcdIter(Log2(8 * (Len(b) - 2)), <<a, b>>))

\* n \div g for a divisor g of n
Quot(n, g) == IF g = One THEN n ELSE NDivMod(n, g)[1]

\* the operations on magnitudes, limb by limb of two sequences of them
NGcdEach(x, y) == [i \in 1..Len(x) |-> NGcd(x[i], y[i])]

QuotEach(x, g) == [i \in 1..Len(x) |-> Quot(x[i], g[i])]

NMulEach(x, y) == [i \in 1..Len(x) |-> NMul(x[i], y[i])]

\* the rational s * n / q of machine integers n >= 0 and q > 0, g being
\* their greatest common divisor
NativeReduce(s, n, q, g) ==
    [s |-> s, n |-> NOfInt(n \div g), d |-> NOfInt(q \div g)]

\* the rational p / q of two machine integers, q > 0
Rat(p, q) == NativeReduce(Sgn(p), Abs(p), q, IGcd(Abs(p), q))

\* numerator and denominator of a are single limbs, so that sums and
\* products of two such rationals are within the machine integers
Small(a) == Len(a.n) <= 1 /\ Len(a.d) <= 1

RNeg(a) == [a EXCEPT !.s = -a.s]

\* s * q[1] / (ad1 * q[2])
AddResult(s, ad1, q) == [s |-> s, n |-> q[1], d |-> NMul(ad1, q[2])]

\* s * m / (ad1 * bd) in lowest terms, g2 being the greatest common divisor
\* of m and bd, and ad1 having no divisor in common with m
AddReduce(s, m, ad1, bd, g2) ==
    Given(g2, AddResult(s, ad1, QuotEach(<<m, bd>>, <<g2, g2>>)))

\* any common divisor of m and the denominator ad1 * bd divides g
AddMag(s, m, ad1, bd, g) ==
    IF Len(m) = 0 THEN RZero ELSE AddReduce(s, m, ad1, bd, NGcd(m, g))

\* (s1 * t[1] + s2 * t[2]) / (ad1 * bd) for signs s1, s2 # 0, c comparing
\* t[1] with t[2]
AddCmp(s1, s2, t, c, ad1, bd, g) ==
    IF s1 = s2 THEN AddMag(s1, NAdd(t[1], t[2]), ad1, bd, g)
    ELSE AddMag(IF c >= 0 THEN s1 ELSE s2,
                NSub(t[IF c >= 0 THEN 1 ELSE 2], t[IF c >= 0 THEN 2 ELSE 1]),
                ad1, bd, g)

AddTerms(s1, s2, t, ad1, bd, g) ==
    AddCmp(s1, s2, t, NCmp(t[1], t[2]), ad1, bd, g)

\* a + b for a, b # 0 over their lowest common denominator, g being the
\* greatest common divisor of a.d and b.d, and c = <<b.d \div g, a.d \div g>>
AddOver(a, b, g, c) ==
    Given(c, AddTerms(a.s, b.s, NMulEach(<<a.n, b.n>>, c), c[2], b.d, g))

AddWith(a, b, g) ==
    Given(g, AddOver(a, b, g, QuotEach(<<b.d, a.d>>, <<g, g>>)))

RAdd(a, b) ==
    IF a.s = 0 THEN b
    ELSE IF b.s = 0 THEN a
    ELSE IF Small(a) /\ Small(b)
    THEN Rat(a.s * IntOf(a.n) * IntOf(b.d) + b.s * IntOf(b.n) * IntOf(a.d),
             IntOf(a.d) * IntOf(b.d))
    ELSE AddWith(a, b, NGcd(a.d, b.d))

RSub(a, b) == RAdd(a, RNeg(b))

\* s * m[1] / m[2]
MulResult(s, m) == [s |-> s, n |-> m[1], d |-> m[2]]

MulQuot(s, q) ==
    Given(q, MulResult(s, NMulEach(<<q[1], q[3]>>, <<q[2], q[4]>>)))

\* a * b for a, b # 0, g[1] and g[2] being the greatest common divisors of
\* a.n with b.d and of b.n with a.d
MulWith(a, b, g) ==
    Given(g, MulQuot(a.s * b.s,
                     QuotEach(<<a.n, b.n, a.d, b.d>>,
                              <<g[1], g[2], g[2], g[1]>>)))

RMul(a, b) ==
    IF a.s = 0 \/ b.s = 0 THEN RZero
    ELSE IF Small(a) /\ Small(b)
    THEN Rat(a.s * b.s * IntOf(a.n) * IntOf(b.n), IntOf(a.d) * IntOf(b.d))
    ELSE MulWith(a, b, NGcdEach(<<a.n, b.n>>, <<b.d, a.d>>))

\* 1 / b for b # 0
RInv(b) == [s |-> b.s, n |-> b.d, d |-> b.n]

\* a / b for b # 0
RDiv(a, b) == RMul(a, RInv(b))

NCmpPair(t) == NCmp(t[1], t[2])

\* -1, 0, 1 as a < b, a = b, a > b
RCmp(a, b) ==
    IF a.s # b.s THEN Sgn(a.s - b.s)
    ELSE IF Small(a) /\ Small(b)
    THEN a.s * Sgn(IntOf(a.n) * IntOf(b.d) - IntOf(b.n) * IntOf(a.d))
    ELSE a.s * NCmpPair(NMulEach(<<a.n, b.n>>, <<b.d, a.d>>))

RLt(a, b) == RCmp(a, b) < 0

RLe(a, b) == RCmp(a, b) <= 0

RMin(a, b) == IF RLe(a, b) THEN a ELSE b

(***************************************************************************)
(* ThermalParams, the resistances and the residual of the forward system.  *)
(***************************************************************************)
None == "None"

ThermalParams(Q_total, mdot, Tin, cp, R_contact, t_plate, k_plate, A_porous, A_outlet, h_porous, h_outlet) ==
    [Q_total |-> Q_total, mdot |-> mdot, Tin |-> Tin, cp |-> cp,
     R_contact |-> R_contact, t_plate |-> t_plate, k_plate |-> k_plate,
     A_porous |-> A_porous, A_outlet |-> A_outlet,
     h_porous |-> h_porous, h_outlet |-> h_outlet,
     Tcpu_target |-> None, Q1_target |-> None]

\* a division of two Python floats whose divisor is zero raises
\* ZeroDivisionError: the four resistances, then Tout_guess
ZeroDivResistances(p) ==
    \/ RMul(p.k_plate, p.A_porous).s = 0
    \/ RMul(p.k_plate, p.A_outlet).s = 0
    \/ RMul(p.h_porous, p.A_porous).s = 0
    \/ RMul(p.h_outlet, p.A_outlet).s = 0

ZeroDivGuess(p) == RMul(p.mdot, p.cp).s = 0

Rcond1(p) == RDiv(p.t_plate, RMul(p.k_plate, p.A_porous))

Rcond2(p) == RDiv(p.t_plate, RMul(p.k_plate, p.A_outlet))

\* variant: the convection resistance of the outlet zone in place of the
\* porous zone's
RconvOutlet(p) == RDiv(Rat(1, 1), RMul(p.h_outlet, p.A_outlet))

Rconv1(p) == RDiv(Rat(1, 1), RMul(p.h_porous, p.A_porous))

Rconv2(p) == RDiv(Rat(1, 1), RMul(p.h_outlet, p.A_outlet))

Rpath1(p) == RAdd(Rcond1(p), Rconv1(p))

Rpath2(p) == RAdd(Rcond2(p), Rconv2(p))

RpathsOf(p) == <<Rpath1(p), Rpath2(p)>>

\* variant: both zones fed at the inlet temperature (parallel flow)
residuals_parallel(xv, Qtot, mdot, cp, Tin, Rp, R_contact) ==
    LET Tcpu    == xv[1]
        Q1      == xv[2]
        Q2      == RSub(Qtot, Q1)
        T_plate == RSub(Tcpu, RMul(Qtot, R_contact))
        Tb1     == RAdd(Tin, RDiv(Q1, RMul(mdot, cp)))
        Tb2     == RAdd(Tin, RDiv(Q2, RMul(mdot, cp)))
        Q1_pred == RDiv(RSub(T_plate, Tb1), Rp[1])
        Q2_pred == RDiv(RSub(T_plate, Tb2), Rp[2])
    IN  Given(<<Q2, T_plate, Tb1, Tb2, Q1_pred, Q2_pred>>,
              <<RSub(Q1, Q1_pred), RSub(Q2, Q2_pred)>>)

\* variant: the contact resistance heats the plate above the CPU
residuals_contact(xv, Qtot, mdot, cp, Tin, Rp, R_contact) ==
    LET Tcpu    == xv[1]
        Q1      == xv[2]
        Q2      == RSub(Qtot, Q1)
        T_plate == RAdd(Tcpu, RMul(Qtot, R_contact))
        Tb1     == RAdd(Tin, RDiv(Q1, RMul(mdot, cp)))
        Tb2     == RAdd(Tb1, RDiv(Q2, RMul(mdot, cp)))
        Q1_pred == RDiv(RSub(T_plate, Tb1), Rp[1])
        Q2_pred == RDiv(RSub(T_plate, Tb2), Rp[2])
    IN  Given(<<Q2, T_plate, Tb1, Tb2, Q1_pred, Q2_pred>>,
              <<RSub(Q1, Q1_pred), RSub(Q2, Q2_pred)>>)

residuals_2zone(xv, Qtot, mdot, cp, Tin, Rp, R_contact) ==
    LET Tcpu    == xv[1]
        Q1      == xv[2]
        Q2      == RSub(Qtot, Q1)
        T_plate == RSub(Tcpu, RMul(Qtot, R_contact))
        Tb1     == RAdd(Tin, RDiv(Q1, RMul(mdot, cp)))
        Tb2     == RAdd(Tb1, RDiv(Q2, RMul(mdot, cp)))
        Q1_pred == RDiv(RSub(T_plate, Tb1), Rp[1])
        Q2_pred == RDiv(RSub(T_plate, Tb2), Rp[2])
    IN  Given(<<Q2, T_plate, Tb1, Tb2, Q1_pred, Q2_pred>>,
              <<RSub(Q1, Q1_pred), RSub(Q2, Q2_pred)>>)

\* residuals_2zone with the args tuple fsolve passes it
Residual(p, Rp, xv) ==
    residuals_2zone(xv, p.Q_total, p.mdot, p.cp, p.Tin, Rp, p.R_contact)

InitialGuess(p, Rp) ==
    LET Tout_guess == RAdd(p.Tin, RDiv(p.Q_total, RMul(p.mdot, p.cp)))
        Tcpu0 == RAdd(Tout_guess,
                      RMul(p.Q_total, RAdd(p.R_contact, RMin(Rp[1], Rp[2]))))
        w1    == RDiv(Rat(1, 1), Rp[1])
        w2    == RDiv(Rat(1, 1), Rp[2])
        Q1_0  == RMul(RDiv(w1, RAdd(w1, w2)), p.Q_total)
    IN  Given(<<Tout_guess, Tcpu0, w1, w2>>, <<Tcpu0, Q1_0>>)

(***************************************************************************)
(* fsolve on residuals_2zone.  The residual is affine in (Tcpu, Q1), so    *)
(* the forward-difference Jacobian is exact and the full Newton step from  *)
(* any point lands on the root when the Jacobian is regular.               *)
(***************************************************************************)
IsRoot(Fv) == Fv[1].s = 0 /\ Fv[2].s = 0

\* one column of the forward-difference Jacobian: the change of the residual
\* from Fv to Fd
Column(Fd, Fv) == <<RSub(Fd[1], Fv[1]), RSub(Fd[2], Fv[2])>>

\* the forward-difference Jacobian at xv, Fv being the residual there
Jacobian(p, Rp, xv, Fv) ==
    <<Column(Residual(p, Rp, <<RAdd(xv[1], Rat(1, 1)), xv[2]>>), Fv),
      Column(Residual(p, Rp, <<xv[1], RAdd(xv[2], Rat(1, 1))>>), Fv)>>

Det(Jm) == RSub(RMul(Jm[1][1], Jm[2][2]), RMul(Jm[2][1], Jm[1][2]))

\* xv - dv / dt componentwise
Stepped(xv, dv, dt) == <<RSub(xv[1], RDiv(dv[1], dt)), RSub(xv[2], RDiv(dv[2], dt))>>

\* variant: half the Newton step
HalfStep(xv, Fv, Jm) ==
    Stepped(xv,
            <<RSub(RMul(Fv[1], Jm[2][2]), RMul(Fv[2], Jm[2][1])),
              RSub(RMul(Jm[1][1], Fv[2]), RMul(Jm[1][2], Fv[1]))>>,
            RMul(Rat(2, 1), Det(Jm)))

\* the full Newton step from xv, Fv and Jm being the residual and its
\* Jacobian there, Det(Jm) # 0
NewtonStep(xv, Fv, Jm) ==
    Stepped(xv,
            <<RSub(RMul(Fv[1], Jm[2][2]), RMul(Fv[2], Jm[2][1])),
              RSub(RMul(Jm[1][1], Fv[2]), RMul(Jm[1][2], Fv[1]))>>,
            Det(Jm))

\* variant: the second zone is given the heat of the first
EqualSplitResults(p, Rp, x_sol) ==
    [Tcpu |-> x_sol[1], T_plate |-> RSub(x_sol[1], RMul(p.Q_total, p.R_contact)),
     Q |-> <<x_sol[2], x_sol[2]>>, Tbulk |-> <<p.Tin, p.Tin>>,
     Twall |-> <<p.Tin, p.Tin>>, Tout |-> p.Tin,
     Rpaths |-> Rp, R_contact |-> p.R_contact]

ThermalResults(p, Rp, x_sol) ==
    LET Tcpu    == x_sol[1]
        Q1      == x_sol[2]
        Q2      == RSub(p.Q_total, Q1)
        Tb1     == RAdd(p.Tin, RDiv(Q1, RMul(p.mdot, p.cp)))
        Tb2     == RAdd(Tb1, RDiv(Q2, RMul(p.mdot, p.cp)))
        T_plate == RSub(Tcpu, RMul(p.Q_total, p.R_contact))
        Tw1     == RSub(T_plate, RMul(Q1, Rcond1(p)))
        Tw2     == RSub(T_plate, RMul(Q2, Rcond2(p)))
    IN  Given(<<Q2, Tb1, Tb2, T_plate, Tw1, Tw2>>,
              [Tcpu |-> Tcpu, T_plate |-> T_plate, Q |-> <<Q1, Q2>>,
               Tbulk |-> <<Tb1, Tb2>>, Twall |-> <<Tw1, Tw2>>, Tout |-> Tb2,
               Rpaths |-> Rp, R_contact |-> p.R_contact])

NoResult ==
    [Tcpu |-> RZero, T_plate |-> RZero, Q |-> <<RZero, RZero>>,
     Tbulk |-> <<RZero, RZero>>, Twall |-> <<RZero, RZero>>, Tout |-> RZero,
     Rpaths |-> <<RZero, RZero>>, R_contact |-> RZero]

(***************************************************************************)
(* Inputs.                                                                 *)
(***************************************************************************)
MaxQ == 2
MaxMdot == 1
MaxArea == 2
MaxH == 2
MaxRc == 1
MaxFev == 3

\* the rational of a machine integer
I(k) == [s |-> Sgn(k), n |-> NOfInt(Abs(k)), d |-> One]

params_base_main ==
    ThermalParams(Rat(250, 1), Rat(1, 100), Rat(300, 1), Rat(418172, 100),
                  Rat(1414028, 10000000), Rat(762, 1000000), Rat(398, 1),
                  Rat(127, 1000000), Rat(291, 1000000),
                  Rat(1180000, 1), Rat(6990, 1))

R_contact_sweep_main ==
    {Rat(1, 100), Rat(5, 100), Rat(1, 10), Rat(1414, 10000), Rat(2, 10), Rat(3, 10)}

mdot_sweep_main ==
    {Rat(5, 1000), Rat(1, 100), Rat(2, 100), Rat(3, 100), Rat(5, 100)}

\* the arithmetic of the solve stays finite: numpy divides by a zero path
\* resistance or a zero conductance sum without raising (inf, nan), and those
\* values are outside the rationals
FiniteArithmetic(p) ==
    /\ ~ZeroDivResistances(p)
    /\ Rpath1(p).s # 0
    /\ Rpath2(p).s # 0
    /\ RAdd(Rpath1(p), Rpath2(p)).s # 0

\* strictly positive flow, specific heat, conductivity, thickness, areas and
\* coefficients; heat load, temperatures and contact resistance any value
ValidScenario(p) ==
    /\ p.mdot.s > 0 /\ p.cp.s > 0 /\ p.k_plate.s > 0 /\ p.t_plate.s > 0
    /\ p.A_porous.s > 0 /\ p.A_outlet.s > 0
    /\ p.h_porous.s > 0 /\ p.h_outlet.s > 0

GridScenarios ==
    { ThermalParams(I(q), I(m), I(20), I(2), I(rc), I(1), I(2),
                    I(a1), I(a2), I(h1), I(h2)) :
        q \in -1..MaxQ, m \in 1..MaxMdot, rc \in 0..MaxRc,
        a1 \in 1..MaxArea, a2 \in 1..MaxArea,
        h1 \in 1..MaxH, h2 \in 1..MaxH }

Seed == ThermalParams(I(2), I(1), I(20), I(2), I(1), I(1), I(2),
                      I(1), I(2), I(2), I(2))

\* scenarios outside the data model's domains, which ThermalParams accepts
InvalidScenarios ==
    {[Seed EXCEPT !.A_porous = I(v)] : v \in {-1, 0}}
    \cup {[Seed EXCEPT !.A_outlet = I(v)] : v \in {-1, 0}}
    \cup {[Seed EXCEPT !.h_porous = I(v)] : v \in {-1, 0}}
    \cup {[Seed EXCEPT !.h_outlet = I(v)] : v \in {-1, 0}}
    \cup {[Seed EXCEPT !.mdot = I(0)]}

Scenarios ==
    {p \in GridScenarios \cup InvalidScenarios \cup {params_base_main} :
        ZeroDivResistances(p) \/ FiniteArithmetic(p)}

R_contact_sweep(base) ==
    IF base = params_base_main THEN R_contact_sweep_main
    ELSE {I(r) : r \in 0..(MaxRc + 1)}

mdot_sweep(base) ==
    IF base = params_base_main THEN mdot_sweep_main
    ELSE {I(m) : m \in 1..(MaxMdot + 1)}

\* variant: only the porous coefficient is written
SetHPorous(p, h) == [p EXCEPT !.h_porous = h[1]]

SetH(p, h) == [p EXCEPT !.h_porous = h[1], !.h_outlet = h[2]]

\* calibration: the coefficient pairs behind the reference solution the
\* targets are taken from, the placeholders of the scenario, the start h0 of
\* the outer solve and the pairs it may try
HStars == {<<I(h1), I(h2)>> : h1 \in 1..MaxH, h2 \in 1..MaxH}

Placeholders == <<I(MaxH), I(1)>>

h0 == <<I(1), I(1)>>

CalibrationScenarios ==
    { ThermalParams(I(q), I(1), I(20), I(2), I(1), I(1), I(2),
                    I(a1), I(MaxArea), I(1), I(1)) :
        q \in {0, MaxQ}, a1 \in 1..MaxArea }

HTrials(p) ==
    {h \in {<<I(h1), I(h2)>> : h1 \in {-1} \cup 1..MaxH, h2 \in {-1} \cup 1..MaxH} :
        FiniteArithmetic(SetH(p, h))}

(***************************************************************************)
(* State.  study names the caller of the forward solve in progress and pc   *)
(* the statement it has reached; params is the ThermalParams object that    *)
(* solve was passed.                                                        *)
(***************************************************************************)
VARIABLES params_base, result_base, study, params, pc, Rpaths, x, F, J, ier,
          result, err, cal

vars == <<params_base, result_base, study, params, pc, Rpaths, x, F, J, ier,
          result, err, cal>>

NoX == <<RZero, RZero>>

NoJ == <<NoX, NoX>>

NoCal ==
    [h_star |-> NoX, before |-> Seed, h |-> NoX, h_iter |-> NoX,
     F_h |-> NoX, F_iter |-> NoX, nfev |-> 0, ier |-> 0, h_calibrated |-> NoX]

Init ==
    /\ \/ /\ params_base \in Scenarios
          /\ study = "base"
          /\ params = params_base
          /\ cal = NoCal
       \/ /\ params_base \in CalibrationScenarios
          /\ study = "reference"
          /\ \E hs \in HStars :
                /\ params = SetH(params_base, hs)
                /\ cal = [NoCal EXCEPT !.h_star = hs]
    /\ result_base = NoResult
    /\ pc = "call"
    /\ Rpaths = NoX
    /\ x = NoX
    /\ F = NoX
    /\ J = NoJ
    /\ ier = 0
    /\ result = NoResult
    /\ err = "none"

(***************************************************************************)
(* coldplate_2zone_model(params), statement by statement.                  *)
(***************************************************************************)
frame == <<params_base, result_base, study, params, cal>>

BuildResistances ==
    /\ pc = "call"
    /\ ~ZeroDivResistances(params)
    /\ Rpaths' = RpathsOf(params)
    /\ pc' = "guess"
    /\ UNCHANGED <<frame, x, F, J, ier, result, err>>

RaiseInResistances ==
    /\ pc = "call"
    /\ ZeroDivResistances(params)
    /\ err' = "ZeroDivisionError"
    /\ pc' = "raised"
    /\ UNCHANGED <<frame, Rpaths, x, F, J, ier, result>>

RaiseInGuess ==
    /\ pc = "guess"
    /\ ZeroDivGuess(params)
    /\ err' = "ZeroDivisionError"
    /\ pc' = "raised"
    /\ UNCHANGED <<frame, Rpaths, x, F, J, ier, result>>

Guess ==
    /\ pc = "guess"
    /\ ~ZeroDivGuess(params)
    /\ x' = InitialGuess(params, Rpaths)
    /\ pc' = "fsolve"
    /\ UNCHANGED <<frame, Rpaths, F, J, ier, result, err>>

\* fsolve evaluates the residual at x0; at a root it is done (ier 1)
FsolveEval ==
    /\ pc = "fsolve"
    /\ F' = Residual(params, Rpaths, x)
    /\ IF IsRoot(F') THEN ier' = 1 /\ pc' = "assemble"
                     ELSE ier' = ier /\ pc' = "jacobian"
    /\ UNCHANGED <<frame, Rpaths, x, J, result, err>>

FsolveJacobian ==
    /\ pc = "jacobian"
    /\ J' = Jacobian(params, Rpaths, x, F)
    /\ pc' = "step"
    /\ UNCHANGED <<frame, Rpaths, x, F, ier, result, err>>

\* with a regular Jacobian the Newton step is taken; with a singular one the
\* iteration makes no progress, fsolve warns and hands back an iterate that
\* is no root (ier 5)
FsolveStep ==
    /\ pc = "step"
    /\ IF Det(J).s = 0
       THEN x' = x /\ ier' = 5 /\ pc' = "assemble"
       ELSE x' = NewtonStep(x, F, J) /\ ier' = ier /\ pc' = "converged"
    /\ UNCHANGED <<frame, Rpaths, F, J, result, err>>

\* the residual at the new iterate decides convergence (ier 1) or not (ier 2)
FsolveTest ==
    /\ pc = "converged"
    /\ F' = Residual(params, Rpaths, x)
    /\ ier' = IF IsRoot(F') THEN 1 ELSE 2
    /\ pc' = "assemble"
    /\ UNCHANGED <<frame, Rpaths, x, J, result, err>>

\* x_sol is used whatever ier is: fsolve is called without full_output
Assemble ==
    /\ pc = "assemble"
    /\ result' = ThermalResults(params, Rpaths, x)
    /\ result_base' = IF study = "base" THEN result' ELSE result_base
    /\ pc' = "returned"
    /\ UNCHANGED <<params_base, study, params, cal, Rpaths, x, F, J, ier, err>>

(***************************************************************************)
(* main: the baseline, then Study 1 (R_contact) and Study 2 (mdot), each    *)
(* on a fresh ThermalParams copied from params_base.                        *)
(***************************************************************************)
Call(st, p) ==
    /\ study' = st
    /\ params' = p
    /\ pc' = "call"
    /\ Rpaths' = NoX
    /\ x' = NoX
    /\ F' = NoX
    /\ J' = NoJ
    /\ ier' = 0
    /\ result' = NoResult

SweepRContact ==
    /\ pc = "returned"
    /\ study \in {"base", "R_contact", "mdot"}
    /\ \E Rc \in R_contact_sweep(params_base) :
          Call("R_contact", [params_base EXCEPT !.R_contact = Rc])
    /\ UNCHANGED <<params_base, result_base, err, cal>>

SweepMdot ==
    /\ pc = "returned"
    /\ study \in {"base", "R_contact", "mdot"}
    /\ \E mdot \in mdot_sweep(params_base) :
          Call("mdot", [params_base EXCEPT !.mdot = mdot])
    /\ UNCHANGED <<params_base, result_base, err, cal>>

(***************************************************************************)
(* calibrate_h_values.py.  The targets are the Tcpu and Q[0] of a           *)
(* reference solution; the outer fsolve evaluates calibration_residuals at  *)
(* h0 and then at trial pairs, keeps the best, and stops at a root (ier 1)  *)
(* or when its evaluations are used up (ier 2).                             *)
(***************************************************************************)
SetTargets ==
    /\ pc = "returned"
    /\ study = "reference"
    /\ params' = [SetH(params, Placeholders) EXCEPT
                     !.Tcpu_target = result.Tcpu, !.Q1_target = result.Q[1]]
    /\ pc' = "calibrate"
    /\ UNCHANGED <<params_base, result_base, study, cal, Rpaths, x, F, J, ier,
                   result, err>>

\* calibration_residuals(h, params) up to its call of the forward solve
Evaluate(h) ==
    /\ cal' = [cal EXCEPT !.before = params, !.h = h]
    /\ Call("calibration_residuals", SetH(params, h))
    /\ UNCHANGED <<params_base, result_base, err>>

CalibrateStart ==
    /\ pc = "calibrate"
    /\ Evaluate(h0)

\* calibration_residuals returns F to the outer fsolve
CalibrateResidual ==
    /\ pc = "returned"
    /\ study = "calibration_residuals"
    /\ cal' = [cal EXCEPT
                  !.F_h = <<RSub(result.Tcpu, params.Tcpu_target),
                            RSub(result.Q[1], params.Q1_target)>>,
                  !.nfev = cal.nfev + 1]
    /\ pc' = "residual"
    /\ UNCHANGED <<params_base, result_base, study, params, Rpaths, x, F, J,
                   ier, result, err>>

Norm2(Fv) == RAdd(RMul(Fv[1], Fv[1]), RMul(Fv[2], Fv[2]))

\* the outer fsolve keeps the trial when it is the first or improves
CalibrateKeep ==
    /\ pc = "residual"
    /\ cal' = IF cal.nfev = 1 \/ RLt(Norm2(cal.F_h), Norm2(cal.F_iter))
              THEN [cal EXCEPT !.h_iter = cal.h, !.F_iter = cal.F_h]
              ELSE cal
    /\ pc' = "iterate"
    /\ UNCHANGED <<params_base, result_base, study, params, Rpaths, x, F, J,
                   ier, result, err>>

CalibrateTrial ==
    /\ pc = "iterate"
    /\ ~IsRoot(cal.F_iter)
    /\ cal.nfev < MaxFev
    /\ \E h \in HTrials(params) : Evaluate(h)

\* fsolve returns h_calibrated; "Calibration complete!" whatever ier is
CalibrateReturn ==
    /\ pc = "iterate"
    /\ IsRoot(cal.F_iter) \/ cal.nfev >= MaxFev
    /\ cal' = [cal EXCEPT !.h_calibrated = cal.h_iter,
                          !.ier = IF IsRoot(cal.F_iter) THEN 1 ELSE 2]
    /\ pc' = "complete"
    /\ UNCHANGED <<params_base, result_base, study, params, Rpaths, x, F, J,
                   ier, result, err>>

\* the verification run with h_calibrated
Verify ==
    /\ pc = "complete"
    /\ Call("verify", SetH(params, cal.h_calibrated))
    /\ UNCHANGED <<params_base, result_base, err, cal>>

Next ==
    \/ BuildResistances
    \/ RaiseInResistances
    \/ RaiseInGuess
    \/ Guess
    \/ FsolveEval
    \/ FsolveJacobian
    \/ FsolveStep
    \/ FsolveTest
    \/ Assemble
    \/ SweepRContact
    \/ SweepMdot
    \/ SetTargets
    \/ CalibrateStart
    \/ CalibrateResidual
    \/ CalibrateKeep
    \/ CalibrateTrial
    \/ CalibrateReturn
    \/ Verify

Spec == Init /\ [][Next]_vars

(***************************************************************************)
(* Properties.                                                             *)
(***************************************************************************)
\* a forward solve has handed back its ThermalResults
Returned == pc = "returned"

\* 1 / (mdot * cp) of the scenario solved
FlowResistance == RDiv(Rat(1, 1), RMul(params.mdot, params.cp))

\* C1: for every valid scenario the heat split the forward solve returns
\* sums to the total heat load, Q[0] + Q[1] == Q_total
C1_Conservation ==
    (Returned /\ ValidScenario(params))
        => RAdd(result.Q[1], result.Q[2]) = params.Q_total

C1_Witness ==
    /\ Returned /\ ValidScenario(params)
    /\ params.Q_total.s # 0
    /\ result.Q[1].s # 0 /\ result.Q[2].s # 0
    /\ result.Q[1] # result.Q[2]

\* C2 as stated: every ThermalResults returned comes from a converged
\* root-finder (ier = 1) and satisfies both residuals
C2_NoUnconvergedResult ==
    Returned => (ier = 1 /\ IsRoot(Residual(params, Rpaths, x)))

\* C3 as stated: with an area or a coefficient <= 0 the solve ends in
\* InvalidGeometryError or InvalidCoefficientError before the root-finder
\* runs, and no ThermalResults is produced
C3_InvalidInputRejected ==
    (\/ params.A_porous.s <= 0 \/ params.A_outlet.s <= 0
     \/ params.h_porous.s <= 0 \/ params.h_outlet.s <= 0)
        => /\ pc \in {"call", "raised"}
           /\ pc = "raised" =>
                  err \in {"InvalidGeometryError", "InvalidCoefficientError"}

\* C4 as stated: when calibration_residuals returns, every field of the
\* scenario it was passed is what it was before the call
C4_ScenarioUnchanged ==
    (study = "calibration_residuals" /\ pc \in {"residual", "iterate", "complete"})
        => params = cal.before

\* C5 as stated: a calibration that completes without error hands back
\* strictly positive coefficients from a converged outer solve, and the
\* verification solve with them meets both targets
C5_CompleteMeansVerified ==
    /\ pc = "complete" =>
           /\ cal.ier = 1
           /\ cal.h_calibrated[1].s > 0 /\ cal.h_calibrated[2].s > 0
    /\ (study = "verify" /\ Returned) =>
           /\ result.Tcpu = params.Tcpu_target
           /\ result.Q[1] = params.Q1_target

\* C6 as stated: for a valid scenario with Rpath1 == Rpath2 the solution has
\* Q1 == Q2 == Qtot / 2
C6_EqualSplit ==
    (Returned /\ ValidScenario(params) /\ Rpaths[1] = Rpaths[2])
        => /\ result.Q[1] = result.Q[2]
           /\ result.Q[1] = RDiv(params.Q_total, Rat(2, 1))

\* C6 amended: for a valid scenario with Rpath1 == Rpath2 == R the serial
\* bulk temperatures give (Q1 - Q2) * (2 R + 1/(mdot cp)) == Qtot / (mdot cp),
\* so that Q1 == Q2 == Qtot / 2 exactly when Q_total is zero
C6_SerialSplit ==
    (Returned /\ ValidScenario(params) /\ Rpaths[1] = Rpaths[2])
        => /\ RMul(RSub(result.Q[1], result.Q[2]),
                   RAdd(RMul(Rat(2, 1), Rpaths[1]), FlowResistance))
                  = RMul(params.Q_total, FlowResistance)
           /\ (result.Q[1] = result.Q[2]) <=> (params.Q_total.s = 0)
           /\ (result.Q[1] = RDiv(params.Q_total, Rat(2, 1)))
                  <=> (params.Q_total.s = 0)

C6_Witness ==
    /\ Returned /\ ValidScenario(params) /\ Rpaths[1] = Rpaths[2]
    /\ params.Q_total.s # 0
    /\ RLt(result.Q[2], result.Q[1])

\* a sweep point of Study 1 or Study 2 has been solved, next to the
\* baseline it was copied from, both valid scenarios
SweepSolved(st) ==
    /\ Returned /\ study = st
    /\ ValidScenario(params) /\ ValidScenario(params_base)

\* a moves as v does from b to a and from vb to va, or against it
MovesWith(a, b, va, vb) == RCmp(a, b) = RCmp(va, vb)

MovesAgainst(a, b, va, vb) == RCmp(a, b) = -RCmp(va, vb)

\* C7 as stated: for every valid scenario, Q_total of any sign, Tcpu is
\* strictly larger for a strictly larger R_contact, and Tcpu and Tout are
\* strictly smaller for a strictly larger mdot
C7_Monotone ==
    /\ SweepSolved("R_contact") =>
           MovesWith(params.R_contact, params_base.R_contact,
                     result.Tcpu, result_base.Tcpu)
    /\ SweepSolved("mdot") =>
           /\ MovesAgainst(params.mdot, params_base.mdot,
                           result.Tcpu, result_base.Tcpu)
           /\ MovesAgainst(params.mdot, params_base.mdot,
                           result.Tout, result_base.Tout)

\* C7 amended: the monotonicity holds for valid scenarios with Q_total > 0:
\* Tcpu strictly larger for a strictly larger R_contact, Tcpu and Tout
\* strictly smaller for a strictly larger mdot; with Q_total == 0 neither
\* R_contact nor mdot changes Tcpu or Tout
C7_MonotonePositiveLoad ==
    /\ (SweepSolved("R_contact") /\ params.Q_total.s > 0) =>
           MovesWith(params.R_contact, params_base.R_contact,
                     result.Tcpu, result_base.Tcpu)
    /\ (SweepSolved("mdot") /\ params.Q_total.s > 0) =>
           /\ MovesAgainst(params.mdot, params_base.mdot,
                           result.Tcpu, result_base.Tcpu)
           /\ MovesAgainst(params.mdot, params_base.mdot,
                           result.Tout, result_base.Tout)
    /\ ((SweepSolved("R_contact") \/ SweepSolved("mdot"))
            /\ params.Q_total.s = 0) =>
           /\ result.Tcpu = result_base.Tcpu
           /\ result.Tout = result_base.Tout

C7_Witness ==
    /\ SweepSolved("mdot") /\ params.Q_total.s > 0
    /\ RLt(params_base.mdot, params.mdot)
    /\ RLt(result.Tcpu, result_base.Tcpu)
    /\ RLt(result.Tout, result_base.Tout)

\* calibration_residuals has returned the residual of the trial pair cal.h
\* to the outer solve, and it is zero at a strictly positive pair
ZeroResidualTrial ==
    /\ study = "calibration_residuals" /\ pc = "residual"
    /\ IsRoot(cal.F_h)
    /\ cal.h[1].s > 0 /\ cal.h[2].s > 0

\* C8 as stated: for every valid scenario the only strictly positive pair
\* with both calibration residuals zero is (h1*, h2*), and the calibration
\* recovers it
C8_Identifiable ==
    /\ ZeroResidualTrial => cal.h = cal.h_star
    /\ (pc = "complete" /\ cal.ier = 1) => cal.h_calibrated = cal.h_star

\* C8 amended: for every valid scenario with Q_total # 0 the only strictly
\* positive pair with both calibration residuals zero is (h1*, h2*), and a
\* converged calibration recovers it; with Q_total == 0 every pair has zero
\* residuals
C8_IdentifiableUnderLoad ==
    /\ (ZeroResidualTrial /\ params.Q_total.s # 0) => cal.h = cal.h_star
    /\ (pc = "complete" /\ cal.ier = 1 /\ params.Q_total.s # 0)
           => cal.h_calibrated = cal.h_star
    /\ (study = "calibration_residuals" /\ pc = "residual"
            /\ params.Q_total.s = 0) => IsRoot(cal.F_h)

C8_Witness ==
    /\ ZeroResidualTrial /\ params.Q_total.s # 0
    /\ cal.h = cal.h_star
    /\ cal.h # h0
    /\ cal.nfev > 1

\* C9: the forward solve on the baseline scenario of main yields Tcpu within
\* 0.5 K of 346.3 K and Q[0] within 1 W of 240 W
C9_Golden ==
    (Returned /\ study = "base" /\ params = params_base_main)
        => /\ RLe(Rat(3458, 10), result.Tcpu) /\ RLe(result.Tcpu, Rat(3468, 10))
           /\ RLe(Rat(239, 1), result.Q[1]) /\ RLe(result.Q[1], Rat(241, 1))

C9_Witness ==
    /\ Returned /\ study = "base" /\ params = params_base_main
    /\ ier = 1
    /\ result.Tcpu = x[1] /\ result.Q[1] = x[2]

\* other starting points of the root-finder, as offsets from the solution
Shifts == {<<I(1), I(0)>>, <<I(0), I(-1)>>, <<I(-3), I(5)>>}

Shifted(xv, d) == <<RAdd(xv[1], d[1]), RAdd(xv[2], d[2])>>

\* the iterate fsolve reaches from the starting point y
SolveFrom(y, Fy) == NewtonStep(y, Fy, Jacobian(params, Rpaths, y, Fy))

====
